---- MODULE Spec2Model ----
(***************************************************************************)
(* Model of the polling core of the Home Assistant IPMI integration:       *)
(* IpmiServer (server.py), the coordinator update method (__init__.py)     *)
(* and the new-sensor listener of the sensor platform (sensor.py).         *)
(*                                                                         *)
(* Python values are encoded as follows.                                   *)
(*   None / x        an optional value is a sequence: <<>> is None and      *)
(*                   <<x>> is the value x                                  *)
(*   str             a sensor name or id is a sequence of one-character    *)
(*                   strings; an absent name (getattr default None) is the *)
(*                   one-element sequence NoName                           *)
(*   dict            a function over its key set                           *)
(*   list            _known_sensors is a bag: only count(), remove(),      *)
(*                   append() and clear() are used on it, none of which    *)
(*                   observes the order                                    *)
(***************************************************************************)
EXTENDS Integers, Sequences, FiniteSets, Bags, TLC

\* ---------------------------------------------------------------- bounds
MaxRecords == 2
MaxPolled == 1
MaxJobs == 2
MaxName == 3
MaxTemplate == 4
MaxEntities == 2

\* ------------------------------------------------------- optional values
None == <<>>
Some(x) == <<x>>
IsNone(o) == o = <<>>
Get(o) == o[1]

\* ------------------------------------------------------------------ dicts
EmptyDict == [k \in {} |-> <<>>]
Put(d, k, v) == [x \in (DOMAIN d) \cup {k} |-> IF x = k THEN v ELSE d[x]]

\* --------------------------------------------------------- names and ids
NoName == <<"<None>">>
EmptyName == <<>>
Upper == {"T", "F", "P", "S", "C", "U"}
Lower == {"t", "f", "p", "s", "c", "u", "a", "n", "e", "d"}
Digit == {"1"}
Kept == Upper \cup Lower \cup Digit \cup {" ", "_"}
lower(c) ==
    CASE c = "T" -> "t" [] c = "F" -> "f" [] c = "P" -> "p"
      [] c = "S" -> "s" [] c = "C" -> "c" [] c = "U" -> "u" [] OTHER -> c
\* a variant of the character class without the underscore
IsKept_no_underscore(c) == c \in Kept \ {"_"}

IsKept(c) == c \in Kept
re_sub(name) == SelectSeq(name, IsKept)
replace_space(s) == [i \in 1..Len(s) |-> IF s[i] = " " THEN "_" ELSE s[i]]
\* a variant without the call of lower()
to_lower_omitted(s) == s

to_lower(s) == [i \in 1..Len(s) |-> lower(s[i])]
generateId(name) == to_lower(replace_space(re_sub(name)))

\* `if name:` is false for None and for the empty string
Truthy(name) == name # NoName /\ name # EmptyName

\* ------------------------------------------------- the BMC's sensor records
SDR_TYPE_FULL_SENSOR_RECORD == "full"
SDR_TYPE_COMPACT_SENSOR_RECORD == "compact"
SDR_TYPE_OTHER == "other"
SENSOR_TYPE_TEMPERATURE == "temperature"
SENSOR_TYPE_VOLTAGE == "voltage"
SENSOR_TYPE_FAN == "fan"
SENSOR_TYPE_OTHER == "other"

\* what get_sensor_reading does for a record: a raw value, a null raw
\* value, a CompletionCodeError, or another error (a timeout)
ReadOk(v) == [err |-> "none", raw |-> Some(v)]
ReadNull == [err |-> "none", raw |-> None]
ReadCC == [err |-> "CompletionCodeError", raw |-> None]
ReadTimeout == [err |-> "IpmiTimeoutError", raw |-> None]

Sdr(name, type, code, m, reading) ==
    [device_id_string |-> name, type |-> type, sensor_type_code |-> code,
     m |-> m, reading |-> reading]

SdrCatalogue ==
    { Sdr(<<"T", "1">>, SDR_TYPE_FULL_SENSOR_RECORD, SENSOR_TYPE_TEMPERATURE, 2, ReadOk(3)),
      Sdr(<<"T", "1">>, SDR_TYPE_FULL_SENSOR_RECORD, SENSOR_TYPE_TEMPERATURE, 2, ReadCC),
      Sdr(<<"T", "1">>, SDR_TYPE_FULL_SENSOR_RECORD, SENSOR_TYPE_TEMPERATURE, 2, ReadNull),
      Sdr(<<"t", "1">>, SDR_TYPE_FULL_SENSOR_RECORD, SENSOR_TYPE_TEMPERATURE, 2, ReadOk(4)),
      Sdr(<<"F", " ", "#", "1">>, SDR_TYPE_COMPACT_SENSOR_RECORD, SENSOR_TYPE_FAN, 2, ReadOk(5)),
      Sdr(<<"F", " ", "#", "1">>, SDR_TYPE_COMPACT_SENSOR_RECORD, SENSOR_TYPE_FAN, 2, ReadTimeout),
      Sdr(NoName, SDR_TYPE_COMPACT_SENSOR_RECORD, SENSOR_TYPE_VOLTAGE, 2, ReadCC),
      Sdr(<<"P", "1">>, SDR_TYPE_OTHER, SENSOR_TYPE_OTHER, 2, ReadNull) }

SeqsUpTo(S, n) == UNION {[1..k -> S] : k \in 0..n}

\* ------------------------------------------- behaviour of the direct transport
\* One poll's worth of answers of the BMC: which call fails (if any), what
\* the device supports and which records its enumerator yields.
Functions == {"sdr_repository", "sensor"}

RmcpBehaviour(c, f1, d, f2, ch, p, s, sdr) ==
    [connect |-> c, fru_first |-> f1, device_id |-> d, fru_second |-> f2,
     chassis |-> ch, power_on |-> p, supports |-> s, sdr |-> sdr]

\* a call that fails ends the poll, so the answers after it are fixed
RmcpBehaviours ==
    { RmcpBehaviour(FALSE, TRUE, TRUE, TRUE, TRUE, FALSE, Functions, <<>>),
      RmcpBehaviour(TRUE, FALSE, TRUE, FALSE, TRUE, FALSE, Functions, <<>>),
      RmcpBehaviour(TRUE, TRUE, FALSE, TRUE, TRUE, FALSE, Functions, <<>>) }
    \cup
    { RmcpBehaviour(TRUE, TRUE, TRUE, f2, FALSE, FALSE, Functions, <<>>) :
        f2 \in BOOLEAN }
    \cup
    { RmcpBehaviour(TRUE, TRUE, TRUE, f2, TRUE, p, s, sdr) :
        f2 \in BOOLEAN, p \in BOOLEAN, s \in SUBSET Functions,
        sdr \in SeqsUpTo(SdrCatalogue, MaxRecords) }

\* the behaviours the BMC of the running system shows to a poll: its
\* sensor records are those of one temperature sensor
PolledCatalogue ==
    { Sdr(<<"T", "1">>, SDR_TYPE_FULL_SENSOR_RECORD, SENSOR_TYPE_TEMPERATURE, 2, ReadOk(3)),
      Sdr(<<"T", "1">>, SDR_TYPE_FULL_SENSOR_RECORD, SENSOR_TYPE_TEMPERATURE, 2, ReadCC) }

PolledBehaviours ==
    { RmcpBehaviour(FALSE, TRUE, TRUE, TRUE, TRUE, FALSE, Functions, <<>>),
      RmcpBehaviour(TRUE, TRUE, FALSE, TRUE, TRUE, FALSE, Functions, <<>>) }
    \cup
    { RmcpBehaviour(TRUE, TRUE, TRUE, TRUE, TRUE, TRUE, s, sdr) :
        s \in {Functions, {}}, sdr \in SeqsUpTo(PolledCatalogue, MaxPolled) }

\* --------------------------------------------------------- getFromRmcp
EmptySensors ==
    [temperature |-> EmptyDict, voltage |-> EmptyDict, fan |-> EmptyDict,
     power |-> EmptyDict, current |-> EmptyDict, time |-> EmptyDict]

\* s.convert_sensor_raw_to_value(value): the record's linear conversion
convert_sensor_raw_to_value(s, raw) == s.m * raw

\* a variant that converts the raw value of a Compact record too
ReadValue_converts_compact(s) ==
    IF s.type \in {SDR_TYPE_FULL_SENSOR_RECORD, SDR_TYPE_COMPACT_SENSOR_RECORD}
    THEN IF s.reading.err = "none"
         THEN [value |-> IF ~IsNone(s.reading.raw)
                         THEN Some(convert_sensor_raw_to_value(s, Get(s.reading.raw)))
                         ELSE s.reading.raw,
               reads |-> 1, logged |-> 0, exc |-> "none"]
         ELSE IF s.reading.err = "CompletionCodeError"
         THEN IF s.device_id_string = NoName
              THEN [value |-> None, reads |-> 1, logged |-> 0, exc |-> "TypeError"]
              ELSE [value |-> None, reads |-> 1, logged |-> 1, exc |-> "none"]
         ELSE [value |-> None, reads |-> 1, logged |-> 0, exc |-> s.reading.err]
    ELSE [value |-> None, reads |-> 0, logged |-> 0, exc |-> "none"]

\* lines 226-244: the value read of one record.  exc is the exception that
\* leaves the loop body ("none" when the body completes).
ReadValue(s) ==
    IF s.type \in {SDR_TYPE_FULL_SENSOR_RECORD, SDR_TYPE_COMPACT_SENSOR_RECORD}
    THEN IF s.reading.err = "none"
         THEN [value |-> IF s.type = SDR_TYPE_FULL_SENSOR_RECORD /\ ~IsNone(s.reading.raw)
                         THEN Some(convert_sensor_raw_to_value(s, Get(s.reading.raw)))
                         ELSE s.reading.raw,
               reads |-> 1, logged |-> 0, exc |-> "none"]
         ELSE IF s.reading.err = "CompletionCodeError"
         THEN \* the handler formats s.device_id_string with {:18s}
              IF s.device_id_string = NoName
              THEN [value |-> None, reads |-> 1, logged |-> 0, exc |-> "TypeError"]
              ELSE [value |-> None, reads |-> 1, logged |-> 1, exc |-> "none"]
         ELSE [value |-> None, reads |-> 1, logged |-> 0, exc |-> s.reading.err]
    ELSE [value |-> None, reads |-> 0, logged |-> 0, exc |-> "none"]

\* a variant that files a fan record under voltage
Bucket_fan_as_voltage(json, s, id_string, value) ==
    IF s.sensor_type_code \in {SENSOR_TYPE_TEMPERATURE, SENSOR_TYPE_FAN, SENSOR_TYPE_VOLTAGE}
    THEN LET b == IF s.sensor_type_code = SENSOR_TYPE_FAN THEN SENSOR_TYPE_VOLTAGE
                  ELSE s.sensor_type_code
         IN  [json EXCEPT
                !.sensors[b] = Put(@, id_string, s.device_id_string),
                !.states = Put(@, id_string, value)]
    ELSE json

\* a variant that keeps the reading of a record of any other type as well
Bucket_reading_for_all(json, s, id_string, value) ==
    IF s.sensor_type_code \in {SENSOR_TYPE_TEMPERATURE, SENSOR_TYPE_FAN, SENSOR_TYPE_VOLTAGE}
    THEN [json EXCEPT
            !.sensors[s.sensor_type_code] = Put(@, id_string, s.device_id_string),
            !.states = Put(@, id_string, value)]
    ELSE [json EXCEPT !.states = Put(@, id_string, value)]

\* lines 246-256: bucket the record by its sensor type code
Bucket(json, s, id_string, value) ==
    IF s.sensor_type_code \in {SENSOR_TYPE_TEMPERATURE, SENSOR_TYPE_FAN, SENSOR_TYPE_VOLTAGE}
    THEN [json EXCEPT
            !.sensors[s.sensor_type_code] = Put(@, id_string, s.device_id_string),
            !.states = Put(@, id_string, value)]
    ELSE json

\* lines 216-256: the loop over the enumerated records, from record i on
RECURSIVE Enumerate(_, _, _)
Enumerate(acc, sdr, i) ==
    IF i > Len(sdr) \/ acc.exc # "none" THEN acc
    ELSE LET s == sdr[i]
             name == s.device_id_string
             id_string == IF Truthy(name) THEN generateId(name) ELSE name
             r == ReadValue(s)
         IN  IF r.exc # "none"
             THEN [acc EXCEPT !.exc = r.exc, !.reads = @ + r.reads]
             ELSE Enumerate([acc EXCEPT !.json = Bucket(@, s, id_string, r.value),
                                        !.reads = @ + r.reads,
                                        !.logged = @ + r.logged],
                            sdr, i + 1)

\* lines 169-265.  opened/closed count the sessions connect() opened and
\* the close() calls made; exc is the exception the outer handler caught.
Failed(opened, exc) ==
    [json |-> None, opened |-> opened, closed |-> 0, exc |-> exc,
     iter_fct |-> "unset", reads |-> 0, logged |-> 0, fru_warned |-> FALSE]

iter_fct_of(supports) ==
    IF "sdr_repository" \in supports THEN "sdr_repository_entries"
    ELSE IF "sensor" \in supports THEN "device_sdr_entries"
    ELSE "None"

Device(b) ==
    [manufacturer_name |-> IF b.fru_second THEN "Acme" ELSE "None",
     product_name |-> IF b.fru_second THEN "Board" ELSE "None",
     firmware_revision |-> "1.0",
     product_id |-> 7]

getFromRmcp(b) ==
    IF ~b.connect THEN Failed(0, "IpmiConnectionError")
    ELSE IF ~b.fru_first THEN Failed(1, "FruError")
    ELSE IF ~b.device_id THEN Failed(1, "IpmiTimeoutError")
    ELSE IF ~b.chassis THEN [Failed(1, "IpmiTimeoutError") EXCEPT !.fru_warned = ~b.fru_second]
    ELSE LET json0 == [device |-> Device(b), sensors |-> EmptySensors,
                       states |-> EmptyDict, power_on |-> b.power_on]
             fct == iter_fct_of(b.supports)
         IN  IF fct = "None"
             THEN [Failed(1, "TypeError") EXCEPT !.iter_fct = fct,
                                                 !.fru_warned = ~b.fru_second]
             ELSE LET e == Enumerate([json |-> json0, exc |-> "none",
                                      reads |-> 0, logged |-> 0], b.sdr, 1)
                  IN  IF e.exc # "none"
                      THEN [json |-> None, opened |-> 1, closed |-> 0, exc |-> e.exc,
                            iter_fct |-> fct, reads |-> e.reads, logged |-> e.logged,
                            fru_warned |-> ~b.fru_second]
                      ELSE [json |-> Some(e.json), opened |-> 1, closed |-> 1,
                            exc |-> "none", iter_fct |-> fct, reads |-> e.reads,
                            logged |-> e.logged, fru_warned |-> ~b.fru_second]

\* ------------------------------------------------- the sidecar's responses
\* One HTTP exchange with the ipmi-server addon: the connection is refused,
\* or a response with a status and a body arrives; the body is not JSON, or
\* it is the JSON value null, a JSON array, or a JSON object with the keys
\* `keys`, the success flag `success` and the payload `payload`.
Keys == {"success", "message", "device", "power_on", "sensors", "states"}
PayloadKeys == {"device", "power_on", "sensors", "states"}

SidecarIds == {<<"t", "1">>, <<"p", "1">>}

SidecarBucket(id) == IF id = <<"t", "1">> THEN "temperature" ELSE "power"

SidecarPayload(ids, nulls) ==
    [device |-> [manufacturer_name |-> "Acme", product_name |-> "Board",
                 firmware_revision |-> "1.0", product_id |-> 7],
     power_on |-> TRUE,
     sensors |-> [b \in DOMAIN EmptySensors |->
                    [id \in {i \in ids : SidecarBucket(i) = b} |-> id]],
     states |-> [id \in ids |-> IF id \in nulls THEN None ELSE Some(4)]]

SidecarPayloads ==
    { SidecarPayload(ids, {}) : ids \in SUBSET SidecarIds }
    \cup { SidecarPayload(SidecarIds, {<<"t", "1">>}) }

NoPayload == SidecarPayload({}, {})

AddonResponse(kind, status, keys, success, payload) ==
    [kind |-> kind, status |-> status, keys |-> keys, success |-> success,
     payload |-> payload]

AddonResponses ==
    { AddonResponse("refused", 0, {}, FALSE, NoPayload) }
    \cup { AddonResponse(k, st, {}, FALSE, NoPayload) :
              k \in {"text", "null", "array"}, st \in {200, 500} }
    \cup { AddonResponse("object", st, ks, FALSE, NoPayload) :
              st \in {200, 500}, ks \in {{"success", "message"}, {"success"}, {"message"}} }
    \cup { AddonResponse("object", st, {"success"} \cup PayloadKeys, TRUE, p) :
              st \in {200, 500}, p \in SidecarPayloads }
    \cup { AddonResponse("object", 200, ks, TRUE, NoPayload) :
              ks \in {PayloadKeys, {"success", "device", "power_on", "sensors"}} }

\* the responses the sidecar of the running system gives
PolledResponses ==
    { AddonResponse("refused", 0, {}, FALSE, NoPayload),
      AddonResponse("array", 200, {}, FALSE, NoPayload),
      AddonResponse("object", 200, {"success", "message"}, FALSE, NoPayload),
      AddonResponse("object", 200, {"success"}, FALSE, NoPayload),
      AddonResponse("object", 200, {"success", "device", "power_on", "sensors"}, TRUE, NoPayload) }
    \cup { AddonResponse("object", 200, {"success"} \cup PayloadKeys, TRUE, p) :
              p \in SidecarPayloads }

\* lines 125-161: requests.get raises when the connection fails, ipmi.json()
\* raises when the body is not JSON; the status code is not looked at
getFromAddon(resp) ==
    IF resp.kind \in {"refused", "text"} THEN None
    ELSE IF resp.kind = "null" THEN None
    ELSE Some(resp)

\* json[key] on the parsed body: the exception it raises, "none" if it is there
Subscript(body, key) ==
    IF body.kind # "object" THEN "TypeError"
    ELSE IF key \notin body.keys THEN "KeyError"
    ELSE "none"

\* --------------------------------------------------------- IpmiServer.update
NotCalled ==
    [json |-> None, opened |-> 0, closed |-> 0, exc |-> "none",
     iter_fct |-> "unset", reads |-> 0, logged |-> 0, fru_warned |-> FALSE]

alias == "server"

\* variants of the transport choice: never falling back, and falling back
\* on a failure the sidecar reports as well
UseRmcp_never(json) == FALSE
UseRmcp_on_failure(json) ==
    IsNone(json) \/ (Get(json).kind = "object" /\ ~Get(json).success)

\* line 303/307: the direct transport is used when the sidecar gave nothing
UseRmcp(json) == IsNone(json)

\* lines 301-308: json is the body to build the snapshot from (None when
\* there is none), as its key set and its payload; exc is the exception
\* that leaves update ("none" when none does)
SelectTransport(resp, b) ==
    LET addon == getFromAddon(resp)
        rmcp == UseRmcp(addon)
        r == IF rmcp THEN getFromRmcp(b) ELSE NotCalled
        pick(json, exc, logged) ==
            [json |-> json, exc |-> exc, error_logged |-> logged,
             addon |-> addon, rmcp |-> rmcp, r |-> r]
    IN  IF ~IsNone(addon)
        THEN LET body == Get(addon)
             IN  IF Subscript(body, "success") # "none"
                 THEN pick(None, Subscript(body, "success"), FALSE)
                 ELSE IF ~body.success
                 THEN IF Subscript(body, "message") # "none"
                      THEN pick(None, Subscript(body, "message"), FALSE)
                      ELSE pick(None, "none", TRUE)
                 ELSE pick(Some([keys |-> body.keys, payload |-> body.payload]),
                           "none", FALSE)
        ELSE IF IsNone(r.json)
             THEN pick(None, "none", FALSE)
             ELSE pick(Some([keys |-> PayloadKeys, payload |-> Get(r.json)]),
                       "none", FALSE)

\* a variant that leaves the alias out of the snapshot
IpmiDeviceInfo_no_alias(payload) ==
    [device |-> payload.device, power_on |-> payload.power_on,
     sensors |-> payload.sensors, states |-> payload.states]

\* lines 310-319: the new value of _device_info, or the KeyError of a body
\* that lacks one of the four payload keys (raised before the assignment)
IpmiDeviceInfo(payload) ==
    [device |-> payload.device, power_on |-> payload.power_on,
     sensors |-> payload.sensors, states |-> payload.states, alias |-> alias]

BuildInfo(json) ==
    IF IsNone(json) THEN [info |-> None, exc |-> "none"]
    ELSE IF ~(PayloadKeys \subseteq Get(json).keys)
         THEN [info |-> None, exc |-> "KeyError"]
         ELSE [info |-> Some(IpmiDeviceInfo(Get(json).payload)), exc |-> "none"]

\* a variant of the pruning that also drops the ids whose reading is null
Prune_drops_null(known, states) ==
    [id \in {x \in BagToSet(known) : x \in DOMAIN states /\ ~IsNone(states[x])} |-> known[id]]

\* lines 321-343: the tracker.  known is the bag _known_sensors.
Prune(known, states) ==
    [id \in {x \in BagToSet(known) : x \in DOMAIN states} |-> known[id]]

NewSensors(known, states) ==
    {id \in DOMAIN states : CopiesIn(id, known) = 0}

\* variants of the tracker: one that keeps the list on an empty reading map,
\* one that sends the signal once per new id, one that clears the list when
\* there is no snapshot
Track_no_clear(known, info) ==
    IF IsNone(info)
    THEN [known |-> known, new_sensors |-> {}, signals |-> 0]
    ELSE LET states == Get(info).states
         IN  IF Cardinality(DOMAIN states) = 0
             THEN [known |-> known, new_sensors |-> {}, signals |-> 0]
             ELSE LET pruned == Prune(known, states)
                      new == NewSensors(pruned, states)
                  IN  [known |-> pruned, new_sensors |-> new,
                       signals |-> IF Cardinality(new) > 0 THEN 1 ELSE 0]

Track_signal_per_id(known, info) ==
    IF IsNone(info)
    THEN [known |-> known, new_sensors |-> {}, signals |-> 0]
    ELSE LET states == Get(info).states
         IN  IF Cardinality(DOMAIN states) = 0
             THEN [known |-> EmptyBag, new_sensors |-> {}, signals |-> 0]
             ELSE LET pruned == Prune(known, states)
                      new == NewSensors(pruned, states)
                  IN  [known |-> pruned, new_sensors |-> new,
                       signals |-> Cardinality(new)]

Track_clear_on_failure(known, info) ==
    IF IsNone(info)
    THEN [known |-> EmptyBag, new_sensors |-> {}, signals |-> 0]
    ELSE LET states == Get(info).states
         IN  IF Cardinality(DOMAIN states) = 0
             THEN [known |-> EmptyBag, new_sensors |-> {}, signals |-> 0]
             ELSE LET pruned == Prune(known, states)
                      new == NewSensors(pruned, states)
                  IN  [known |-> pruned, new_sensors |-> new,
                       signals |-> IF Cardinality(new) > 0 THEN 1 ELSE 0]

Track(known, info) ==
    IF IsNone(info)
    THEN [known |-> known, new_sensors |-> {}, signals |-> 0]
    ELSE LET states == Get(info).states
         IN  IF Cardinality(DOMAIN states) = 0
             THEN [known |-> EmptyBag, new_sensors |-> {}, signals |-> 0]
             ELSE LET pruned == Prune(known, states)
                      new == NewSensors(pruned, states)
                  IN  [known |-> pruned, new_sensors |-> new,
                       signals |-> IF Cardinality(new) > 0 THEN 1 ELSE 0]

\* lines 298-343: the whole of update, from the values of _device_info and
\* _known_sensors before the call
\* a variant in which a server without a snapshot never gets one again
update_sticky_failure(resp, b, info0, known0) ==
    LET sel == SelectTransport(resp, b)
        bi == BuildInfo(sel.json)
        exc == IF sel.exc # "none" THEN sel.exc ELSE bi.exc
        info == IF IsNone(info0) THEN None ELSE bi.info
        t == Track(known0, info)
    IN  IF exc # "none"
        THEN [device_info |-> info0, known_sensors |-> known0, exc |-> exc,
              sel |-> sel, new_sensors |-> {}, signals |-> 0]
        ELSE [device_info |-> info, known_sensors |-> t.known, exc |-> "none",
              sel |-> sel, new_sensors |-> t.new_sensors, signals |-> t.signals]

update(resp, b, info0, known0) ==
    LET sel == SelectTransport(resp, b)
        bi == BuildInfo(sel.json)
        exc == IF sel.exc # "none" THEN sel.exc ELSE bi.exc
        t == Track(known0, bi.info)
    IN  IF exc # "none"
        THEN [device_info |-> info0, known_sensors |-> known0, exc |-> exc,
              sel |-> sel, new_sensors |-> {}, signals |-> 0]
        ELSE [device_info |-> bi.info, known_sensors |-> t.known, exc |-> "none",
              sel |-> sel, new_sensors |-> t.new_sensors, signals |-> t.signals]

\* a variant of the handler that looks at the temperature bucket only
BucketIds_temperature_only(status) == DOMAIN status.sensors["temperature"]

\* sensor.py lines 117-270: every id of the six buckets of the coordinator's
\* snapshot that is not known is made known (and gets an entity)
BucketIds(status) ==
    UNION {DOMAIN status.sensors[b] : b \in DOMAIN status.sensors}

\* a variant that appends without looking at the list
add_known_sensor_unguarded(known, id) == known (+) SetToBag({id})

\* server.py lines 345-350, as called from sensor.py lines 132-134
add_known_sensor(known, id) ==
    IF CopiesIn(id, known) = 0 THEN known (+) SetToBag({id}) ELSE known

RECURSIVE AddAll(_, _)
AddAll(known, ids) ==
    IF ids = {} THEN known
    ELSE LET id == CHOOSE x \in ids : TRUE
         IN  AddAll(add_known_sensor(known, id), ids \ {id})

create_entity_sensors(known, status) == AddAll(known, BucketIds(status))

\* sensor.py lines 126-268: the keys of the entities the handler appends to
\* its list, one for every id of a bucket that is not known
NewEntities(known, status) == {id \in BucketIds(status) : CopiesIn(id, known) = 0}

\* sensor.py line 270: the entities made so far, counted by key
async_add_entities(made, keys) == made (+) SetToBag(keys)

\* ------------------------------------------------------- sensor entities
\* sensor.py lines 299-333: what an entity with the given key reports from
\* the coordinator's snapshot.  The status entity has the key KEY_STATUS.
KEY_STATUS == <<"s", "t", "a", "t", "u", "s">>
STATE_UNKNOWN == "unknown"
STATE_UNAVAILABLE == "unavailable"

\* status.states.get(key, None)
StateOf(key, status) ==
    IF key \in DOMAIN status.states THEN status.states[key] ELSE None

available(key, status) ==
    IF key = KEY_STATUS THEN TRUE
    ELSE IF Cardinality(DOMAIN status.states) = 0 THEN FALSE
    ELSE ~IsNone(StateOf(key, status))

\* a value an entity reports: a float, or one of the state strings
Float(v) == [shown |-> "float", value |-> Some(v)]
Str(text) == [shown |-> text, value |-> None]

native_value(key, status) ==
    IF key = KEY_STATUS
    THEN IF status.power_on THEN Str("on") ELSE Str("off")
    ELSE IF Cardinality(DOMAIN status.states) = 0 THEN Str("False")
    ELSE IF ~IsNone(StateOf(key, status))
         THEN Float(Get(StateOf(key, status)))
         ELSE Str(STATE_UNKNOWN)

\* the state the entity shows: unavailable unless available, else its value
EntityState(key, status) ==
    IF available(key, status) THEN native_value(key, status) ELSE Str(STATE_UNAVAILABLE)

\* ------------------------------------------------------------------ state
VARIABLES
    device_info,     \* IpmiServer._device_info
    known_sensors,   \* IpmiServer._known_sensors
    entities,        \* the sensor entities handed to async_add_entities, by key
    new_sensors,     \* the ids update's latest run collected in its new_sensors
    jobs,            \* executor jobs running IpmiServer.update
    awaiting,        \* the job async_update_data awaits, 0 when none
    loop,            \* callbacks queued on the event loop, in order
    coordinator,     \* DataUpdateCoordinator: its data and its last exception
    phase,           \* "first_refresh" until the sensor platform is set up
    fn,              \* the function a single call is made to ("none": no call)
    arg,             \* the arguments of that call
    res              \* its result, None before the call is made

sysvars == <<device_info, known_sensors, entities, new_sensors, jobs, awaiting, loop, coordinator, phase>>
callvars == <<fn, arg, res>>
vars == <<device_info, known_sensors, entities, new_sensors, jobs, awaiting, loop, coordinator, phase,
          fn, arg, res>>

JobIds == 1..MaxJobs

\* no refresh is started once MaxEntities entities have been made for a key
EntitiesBounded == \A id \in BagToSet(entities) : CopiesIn(id, entities) < MaxEntities

NotPolled == RmcpBehaviour(FALSE, TRUE, TRUE, TRUE, TRUE, FALSE, Functions, <<>>)

InitSys ==
    /\ device_info = None
    /\ known_sensors = EmptyBag
    /\ entities = EmptyBag
    /\ new_sensors = {}
    /\ jobs = [j \in JobIds |-> "idle"]
    /\ awaiting = 0
    /\ loop = <<>>
    /\ coordinator = [data |-> None, last_exception |-> "none"]
    /\ phase = "first_refresh"

NoCall ==
    /\ fn = "none"
    /\ arg = None
    /\ res = None

Init == InitSys /\ NoCall

\* __init__.py lines 88-102: the coordinator calls async_update_data, which
\* hands update to the executor and awaits it.  The coordinator runs one
\* refresh at a time; before the first refresh has succeeded the entry is
\* not set up and the refresh is the retried first refresh.  The refresh
\* timer is a callback of the event loop: callbacks queued before it run first.
StartRefresh(j) ==
    /\ awaiting = 0
    /\ loop = <<>>
    /\ jobs[j] = "idle"
    /\ \A k \in JobIds : k < j => jobs[k] # "idle"
    /\ phase = "ready" \/ IsNone(coordinator.data)
    /\ EntitiesBounded
    /\ jobs' = [jobs EXCEPT ![j] = "running"]
    /\ awaiting' = j
    /\ UNCHANGED <<device_info, known_sensors, entities, new_sensors, loop, coordinator, phase, callvars>>

\* server.py lines 298-343, run by the executor thread of job j.  The
\* signal is sent from inside update; the completion of the awaited future
\* is queued after it.  A job whose awaiter timed out has no awaiter.
\* The signal has no arguments (lines 341-343): the field new of its event
\* records the new_sensors of the run that sent it, which nothing reads.
BehavioursFor(resp, bs) ==
    IF IsNone(getFromAddon(resp)) THEN bs ELSE {NotPolled}

UpdateRun(j) ==
    /\ jobs[j] = "running"
    /\ \E resp \in PolledResponses : \E b \in BehavioursFor(resp, PolledBehaviours) :
       \E u \in {update(resp, b, device_info, known_sensors)} :
         LET sig == IF u.signals > 0
                    THEN <<[type |-> "signal", job |-> j, exc |-> "none",
                            new |-> u.new_sensors]>>
                    ELSE <<>>
             done == IF awaiting = j
                     THEN <<[type |-> "done", job |-> j, exc |-> u.exc, new |-> {}]>>
                     ELSE <<>>
         IN  /\ device_info' = u.device_info
             /\ known_sensors' = u.known_sensors
             /\ new_sensors' = u.new_sensors
             /\ loop' = loop \o sig \o done
    /\ jobs' = [jobs EXCEPT ![j] = "idle"]
    /\ UNCHANGED <<entities, awaiting, coordinator, phase, callvars>>

\* __init__.py line 90: async_timeout ends the await after DEFAULT_TIMEOUT;
\* the executor thread is not stopped and goes on running update
Timeout ==
    /\ awaiting # 0
    /\ loop = <<>>
    /\ jobs[awaiting] = "running"
    /\ awaiting' = 0
    /\ coordinator' = [coordinator EXCEPT !.last_exception = "TimeoutError"]
    /\ UNCHANGED <<device_info, known_sensors, entities, new_sensors, jobs, loop, phase, callvars>>

\* sensor.py lines 101-104: the listener of the new-sensor signal, connected
\* by the sensor platform's setup; a signal sent before that has no listener
HandleSignal ==
    /\ loop # <<>>
    /\ Head(loop).type = "signal"
    /\ loop' = Tail(loop)
    /\ known_sensors' = IF phase = "ready"
                        THEN create_entity_sensors(known_sensors, Get(coordinator.data))
                        ELSE known_sensors
    /\ entities' = IF phase = "ready"
                   THEN async_add_entities(entities,
                                           NewEntities(known_sensors, Get(coordinator.data)))
                   ELSE entities
    /\ UNCHANGED <<device_info, new_sensors, jobs, awaiting, coordinator, phase, callvars>>

\* __init__.py lines 91-94: the await returns (or raises what update
\* raised), then the snapshot is read back from the server
async_update_data(exc, info) ==
    IF exc # "none" THEN [data |-> None, exc |-> exc]
    ELSE IF IsNone(info) THEN [data |-> None, exc |-> "UpdateFailed"]
    ELSE [data |-> info, exc |-> "none"]

\* the coordinator stores the returned snapshot, or keeps its data and
\* records the exception
FinishRefresh ==
    /\ loop # <<>>
    /\ Head(loop).type = "done"
    /\ loop' = Tail(loop)
    /\ awaiting' = 0
    /\ LET r == async_update_data(Head(loop).exc, device_info)
       IN  coordinator' =
             IF r.exc # "none"
             THEN [coordinator EXCEPT !.last_exception = r.exc]
             ELSE [data |-> r.data, last_exception |-> "none"]
    /\ UNCHANGED <<device_info, known_sensors, entities, new_sensors, jobs, phase, callvars>>

\* sensor.py lines 69-114: after the first successful refresh the sensor
\* platform connects the listener and calls async_new_sensors once itself
SetupSensors ==
    /\ phase = "first_refresh"
    /\ awaiting = 0
    /\ ~IsNone(coordinator.data)
    /\ phase' = "ready"
    /\ known_sensors' = create_entity_sensors(known_sensors, Get(coordinator.data))
    /\ entities' = async_add_entities(entities,
                                      NewEntities(known_sensors, Get(coordinator.data)))
    /\ UNCHANGED <<device_info, new_sensors, jobs, awaiting, loop, coordinator, callvars>>

Next ==
    \/ \E j \in JobIds : StartRefresh(j)
    \/ \E j \in JobIds : UpdateRun(j)
    \/ Timeout
    \/ HandleSignal
    \/ FinishRefresh
    \/ SetupSensors

Spec == Init /\ [][Next]_vars

\* the scheduling of the system: the event loop runs every callback queued
\* on it, the executor runs every job handed to it, the setup of the entry
\* goes on to the sensor platform, and the coordinator's timer starts the
\* next refresh.  A timeout is not bound to happen.
Fairness ==
    /\ WF_vars(HandleSignal)
    /\ WF_vars(FinishRefresh)
    /\ WF_vars(SetupSensors)
    /\ \A j \in JobIds : WF_vars(UpdateRun(j))
    /\ \A j \in JobIds : WF_vars(StartRefresh(j))

SpecLive == Spec /\ Fairness

\* ------------------------------------------------ one direct poll on its own
\* getFromRmcp run once against each behaviour of the BMC
InitRmcp ==
    /\ InitSys
    /\ fn = "getFromRmcp"
    /\ arg \in RmcpBehaviours
    /\ res = None

Poll ==
    /\ fn = "getFromRmcp"
    /\ IsNone(res)
    /\ res' = Some(getFromRmcp(arg))
    /\ UNCHANGED <<sysvars, fn, arg>>

NextRmcp == Poll

SpecRmcp == InitRmcp /\ [][NextRmcp]_vars

\* ------------------------------------------------------ one update on its own
\* update run once from each prior state against each sidecar response and,
\* where the direct transport is reached, each behaviour of the BMC
PriorInfos == {None, Some(IpmiDeviceInfo(SidecarPayload(SidecarIds, {})))}
PriorKnown == {SetToBag(ids) : ids \in SUBSET SidecarIds}

UpdateInputs ==
    UNION { { [resp |-> r, b |-> b, info0 |-> i, known0 |-> k] :
                b \in BehavioursFor(r, PolledBehaviours), i \in PriorInfos, k \in PriorKnown } :
            r \in AddonResponses }

InitUpdate ==
    /\ InitSys
    /\ fn = "update"
    /\ arg \in UpdateInputs
    /\ res = None

Update ==
    /\ fn = "update"
    /\ IsNone(res)
    /\ res' = Some(update(arg.resp, arg.b, arg.info0, arg.known0))
    /\ UNCHANGED <<sysvars, fn, arg>>

NextUpdate == Update

SpecUpdate == InitUpdate /\ [][NextUpdate]_vars

\* ------------------------------------------- commands and power verbs
\* The body of a command response is a JSON object with the keys `keys`,
\* its success flag and, as payload, its output.
CommandKeys == {"success", "output"}

CommandResponses ==
    { AddonResponse("refused", 0, {}, FALSE, "") }
    \cup { AddonResponse(k, 200, {}, FALSE, "") : k \in {"text", "null", "array"} }
    \cup { AddonResponse("object", st, ks, ok, out) :
              st \in {200, 500}, ks \in SUBSET CommandKeys, ok \in BOOLEAN,
              out \in {"done", "no route"} }

\* a command line, as its characters; str.format raises on a lone brace
Commands == { <<"r", "a", "w">>, <<"r", "{">> }

FormatRaises(command) == \E i \in 1..Len(command) : command[i] = "{"

\* lines 398-405: the branch taken on success == False, once the keys are
\* known to be there
FailureBranch_never_raises(command, response, ignore_errors) ==
    [exc |-> "none", detail |-> <<command, response.payload>>, logged |-> 1]

FailureBranch(command, response, ignore_errors) ==
    IF ignore_errors
    THEN [exc |-> "none", detail |-> <<command, response.payload>>, logged |-> 1]
    ELSE [exc |-> "Exception", detail |-> <<command, response.payload>>, logged |-> 0]

CommandResult(exc, detail, logged, output) ==
    [exc |-> exc, detail |-> detail, logged |-> logged, output |-> output,
     path |-> "command", rmcp |-> <<>>, sent |-> <<>>, opened |-> 0, closed |-> 0]

\* lines 382-407.  exc is the exception that leaves send_command ("none"
\* when it returns), detail what the raised Exception carries, output the
\* value returned.
send_command(command, ignore_errors, resp) ==
    LET response == getFromAddon(resp)
    IN  IF IsNone(response)
        THEN IF FormatRaises(command)
             THEN CommandResult("ValueError", <<>>, 0, None)
             ELSE IF ~ignore_errors
             THEN CommandResult("Exception", <<command>>, 0, None)
             ELSE CommandResult("TypeError", <<>>, 1, None)
        ELSE LET body == Get(response)
             IN  IF Subscript(body, "success") # "none"
                 THEN CommandResult(Subscript(body, "success"), <<>>, 0, None)
                 ELSE IF Subscript(body, "output") # "none"
                 THEN CommandResult(Subscript(body, "output"), <<>>, 0, None)
                 ELSE IF ~body.success
                 THEN LET f == FailureBranch(command, body, ignore_errors)
                      IN  IF f.exc # "none"
                          THEN CommandResult(f.exc, f.detail, f.logged, None)
                          ELSE CommandResult("none", f.detail, f.logged,
                                             Some(body.payload))
                 ELSE CommandResult("none", <<>>, 0, Some(body.payload))

\* lines 352-380: the five power verbs, the sub-path each asks the sidecar
\* for and the pyipmi.chassis constant each passes to runRmcpCommand
PowerVerbs == {"power_on", "power_off", "power_cycle", "power_reset", "soft_shutdown"}

AddonPath(verb) == verb

ChassisCommand_reset_cycles(verb) ==
    CASE verb = "power_on" -> "CONTROL_POWER_UP"
      [] verb = "power_off" -> "CONTROL_POWER_DOWN"
      [] verb = "power_cycle" -> "CONTROL_POWER_CYCLE"
      [] verb = "power_reset" -> "CONTROL_POWER_CYCLE"
      [] verb = "soft_shutdown" -> "CONTROL_SOFT_SHUTDOWN"

ChassisCommand(verb) ==
    CASE verb = "power_on" -> "CONTROL_POWER_UP"
      [] verb = "power_off" -> "CONTROL_POWER_DOWN"
      [] verb = "power_cycle" -> "CONTROL_POWER_CYCLE"
      [] verb = "power_reset" -> "CONTROL_HARD_RESET"
      [] verb = "soft_shutdown" -> "CONTROL_SOFT_SHUTDOWN"

\* what the BMC does to a chassis-control session
ControlOutcomes == {"connect_fails", "control_fails", "ok"}

\* lines 267-273: sent is what chassis_control was called with
runRmcpCommand_unguarded(command, outcome) ==
    IF outcome = "connect_fails"
    THEN [sent |-> <<>>, opened |-> 0, closed |-> 0, logged |-> 0,
          exc |-> "IpmiConnectionError"]
    ELSE IF outcome = "control_fails"
    THEN [sent |-> <<command>>, opened |-> 1, closed |-> 0, logged |-> 0,
          exc |-> "CompletionCodeError"]
    ELSE [sent |-> <<command>>, opened |-> 1, closed |-> 1, logged |-> 0, exc |-> "none"]

runRmcpCommand(command, outcome) ==
    IF outcome = "connect_fails"
    THEN [sent |-> <<>>, opened |-> 0, closed |-> 0, logged |-> 1, exc |-> "none"]
    ELSE IF outcome = "control_fails"
    THEN [sent |-> <<command>>, opened |-> 1, closed |-> 0, logged |-> 1, exc |-> "none"]
    ELSE [sent |-> <<command>>, opened |-> 1, closed |-> 1, logged |-> 0, exc |-> "none"]

\* lines 352-380: one power verb.  path is the sub-path asked of the
\* sidecar, rmcp the commands runRmcpCommand was called with.
power_verb(verb, resp, outcome) ==
    LET json == getFromAddon(resp)
    IN  IF IsNone(json)
        THEN LET r == runRmcpCommand(ChassisCommand(verb), outcome)
             IN  [exc |-> r.exc, detail |-> <<>>, logged |-> r.logged, output |-> None,
                  path |-> AddonPath(verb), rmcp |-> <<ChassisCommand(verb)>>,
                  sent |-> r.sent, opened |-> r.opened, closed |-> r.closed]
        ELSE [exc |-> "none", detail |-> <<>>, logged |-> 0, output |-> None,
              path |-> AddonPath(verb), rmcp |-> <<>>, sent |-> <<>>,
              opened |-> 0, closed |-> 0]

\* one command or power verb on its own, on a server in any of the prior
\* states; neither assigns a field of the server
CommandInputs ==
    { [command |-> c, ignore_errors |-> i, resp |-> r] :
        c \in Commands, i \in BOOLEAN, r \in CommandResponses }

PowerInputs ==
    { [resp |-> r, outcome |-> o] : r \in CommandResponses, o \in ControlOutcomes }

InitCommand ==
    /\ device_info \in PriorInfos
    /\ known_sensors \in PriorKnown
    /\ entities = known_sensors
    /\ new_sensors = {}
    /\ jobs = [j \in JobIds |-> "idle"]
    /\ awaiting = 0
    /\ loop = <<>>
    /\ coordinator = [data |-> Some(IpmiDeviceInfo(SidecarPayload(SidecarIds, {}))),
                      last_exception |-> "none"]
    /\ phase = "ready"
    /\ \/ fn = "send_command" /\ arg \in CommandInputs
       \/ fn \in PowerVerbs /\ arg \in PowerInputs
    /\ res = None

SendCommand ==
    /\ fn = "send_command"
    /\ IsNone(res)
    /\ res' = Some(send_command(arg.command, arg.ignore_errors, arg.resp))
    /\ UNCHANGED <<sysvars, fn, arg>>

PowerVerb(verb) ==
    /\ fn = verb
    /\ IsNone(res)
    /\ res' = Some(power_verb(verb, arg.resp, arg.outcome))
    /\ UNCHANGED <<sysvars, fn, arg>>

NextCommand ==
    \/ SendCommand
    \/ \E verb \in PowerVerbs : PowerVerb(verb)

SpecCommand == InitCommand /\ [][NextCommand]_vars

\* ------------------------------------------------- generateId on its own
\* generateId applied once to each name of up to MaxName characters over an
\* alphabet with a letter in both cases, a digit, the space, the underscore
\* and a punctuation character, and to one longer name
IdAlphabet == {"T", "t", "1", " ", "_", "#"}

FanSpeedName ==
    <<"F", "a", "n", " ", "S", "p", "e", "e", "d", " ", "#", "1", " ",
      "(", "C", "P", "U", ")">>

Names == SeqsUpTo(IdAlphabet, MaxName) \cup {FanSpeedName}

InitId ==
    /\ InitSys
    /\ fn = "generateId"
    /\ arg \in Names
    /\ res = None

Sanitize ==
    /\ fn = "generateId"
    /\ IsNone(res)
    /\ res' = Some(generateId(arg))
    /\ UNCHANGED <<sysvars, fn, arg>>

NextId == Sanitize

SpecId == InitId /\ [][NextId]_vars

\* ------------------------------------------- the command template
\* Strings of send_command as sequences of pieces: the dollar sign, the
\* four words that make a token between two dollar signs, other text, and
\* the values of the connection.
Pieces == {"$", "host", "port", "username", "password", "x"}

\* the connection's values; a user name may itself hold dollar signs
Connections ==
    { [host |-> <<"H">>, port |-> <<"623">>, username |-> u, password |-> <<"W">>] :
        u \in { <<"U">>, <<"$", "password", "$">> } }

StartsWith(s, old) ==
    Len(old) <= Len(s) /\ \A k \in 1..Len(old) : s[k] = old[k]

\* str.replace: every occurrence, found from the left, not overlapping
RECURSIVE str_replace(_, _, _)
str_replace(s, old, new) ==
    IF s = <<>> THEN <<>>
    ELSE IF StartsWith(s, old)
    THEN new \o str_replace(SubSeq(s, Len(old) + 1, Len(s)), old, new)
    ELSE <<Head(s)>> \o str_replace(Tail(s), old, new)

\* server.py lines 383-386: four replacements, one after the other
substitute(command, conn) ==
    LET c1 == str_replace(command, <<"$", "host", "$">>, conn.host)
        c2 == str_replace(c1, <<"$", "port", "$">>, conn.port)
        c3 == str_replace(c2, <<"$", "username", "$">>, conn.username)
    IN  str_replace(c3, <<"$", "password", "$">>, conn.password)

\* requests.utils.quote: letters and digits stay, the dollar sign is escaped
quote(cmd) == [i \in 1..Len(cmd) |-> IF cmd[i] = "$" THEN "%24" ELSE cmd[i]]

\* lines 383-389: the substituted command and the sub-path asked of the sidecar
command_path(command, conn) ==
    LET cmd == substitute(command, conn)
    IN  [cmd |-> cmd, path |-> <<"command?params=">> \o quote(cmd)]

Templates == SeqsUpTo(Pieces, MaxTemplate)

InitTemplate ==
    /\ InitSys
    /\ fn = "command_path"
    /\ arg \in { [command |-> c, conn |-> k] : c \in Templates, k \in Connections }
    /\ res = None

Substitute ==
    /\ fn = "command_path"
    /\ IsNone(res)
    /\ \E r \in {command_path(arg.command, arg.conn)} : res' = Some(r)
    /\ UNCHANGED <<sysvars, fn, arg>>

NextTemplate == Substitute

SpecTemplate == InitTemplate /\ [][NextTemplate]_vars

\* ------------------------------------------------ two configured servers
\* Two config entries, each with its IpmiServer, its coordinator and its
\* listener of the new-sensor signal.  servers maps an entry id to the
\* fields of its IpmiServer and to its coordinator's data.
EntryIds == {"e1", "e2"}

\* server.py lines 81-113: the fields a new IpmiServer sets on itself
NewServer(entry_id) ==
    [entry_id |-> entry_id, device_info |-> None, known_sensors |-> EmptyBag]

\* the entry's setup: the server is made with the entry's id and kept, with
\* the coordinator, under that id
Registered(e) == [server |-> NewServer(e), data |-> None]

\* const.py line 45 with server.py line 342 and sensor.py line 109: the
\* name of the signal a server sends, and of the one an entry listens to
IPMI_NEW_SENSOR_SIGNAL(id) == <<"ipmi_new_sensor_signal", id>>
SentSignal(server) == IPMI_NEW_SENSOR_SIGNAL(server.entry_id)
ListenedSignal(e) == IPMI_NEW_SENSOR_SIGNAL(e)

\* a variant in which the list of known sensors is one list of the class
StoreServer_shared_known(servers, e, info, known) ==
    [x \in DOMAIN servers |->
        IF x = e
        THEN [servers[x] EXCEPT !.server.device_info = info,
                                !.server.known_sensors = known]
        ELSE [servers[x] EXCEPT !.server.known_sensors = known]]

\* self._device_info = ..., self._known_sensors.clear() / remove / append:
\* the fields are the instance's own (server.py lines 112-113, 317-334, 350)
StoreServer(servers, e, info, known) ==
    [servers EXCEPT ![e].server.device_info = info,
                    ![e].server.known_sensors = known]

\* the entries whose listener a signal of the given name reaches
Listeners(name) == {x \in EntryIds : ListenedSignal(x) = name}

\* sensor.py lines 101-125: the listeners reached run create_entity_sensors,
\* each on its own server and its own coordinator's data
RECURSIVE Deliver(_, _)
Deliver(servers, to) ==
    IF to = {} THEN servers
    ELSE LET x == CHOOSE y \in to : TRUE
             known == IF IsNone(servers[x].data) THEN servers[x].server.known_sensors
                      ELSE create_entity_sensors(servers[x].server.known_sensors,
                                                 Get(servers[x].data))
         IN  Deliver(StoreServer(servers, x, servers[x].server.device_info, known),
                     to \ {x})

\* one refresh of entry e, from the result u of its run of update: the
\* handling of its signal, and the coordinator storing the snapshot (or, the
\* first time, the platform's own call of create_entity_sensors)
refresh(servers, e, u) ==
    LET after == StoreServer(servers, e, u.device_info, u.known_sensors)
        to == IF u.signals > 0 THEN Listeners(SentSignal(servers[e].server)) ELSE {}
        handled == Deliver(after, to)
        r == async_update_data(u.exc, u.device_info)
        stored == IF r.exc # "none" THEN handled
                  ELSE [handled EXCEPT ![e].data = r.data]
        first == IsNone(servers[e].data) /\ r.exc = "none"
    IN  [servers |-> IF first THEN Deliver(stored, {e}) ELSE stored,
         delivered |-> to]

PairResponses ==
    { AddonResponse("refused", 0, {}, FALSE, NoPayload),
      AddonResponse("object", 200, {"success"} \cup PayloadKeys, TRUE,
                    SidecarPayload(SidecarIds, {})),
      AddonResponse("object", 200, {"success"} \cup PayloadKeys, TRUE, NoPayload) }

PairBehaviours ==
    { NotPolled,
      RmcpBehaviour(TRUE, TRUE, TRUE, TRUE, TRUE, TRUE, Functions,
                    <<Sdr(<<"T", "1">>, SDR_TYPE_FULL_SENSOR_RECORD,
                          SENSOR_TYPE_TEMPERATURE, 2, ReadOk(3))>>) }

InitPair ==
    /\ InitSys
    /\ fn = "pair"
    /\ arg = [on |-> "none", op |-> "setup"]
    /\ res = Some([servers |-> [e \in EntryIds |-> Registered(e)], delivered |-> {}])

Refresh(e) ==
    /\ fn = "pair"
    /\ \E resp \in PairResponses : \E b \in BehavioursFor(resp, PairBehaviours) :
       \E u \in {update(resp, b, Get(res).servers[e].server.device_info,
                        Get(res).servers[e].server.known_sensors)} :
       \E r \in {refresh(Get(res).servers, e, u)} :
         res' = Some(r)
    /\ arg' = [on |-> e, op |-> "refresh"]
    /\ UNCHANGED <<sysvars, fn>>

\* a power verb on entry e: no field of a server is assigned
Command(e) ==
    /\ fn = "pair"
    /\ \E verb \in PowerVerbs : \E resp \in PairResponses :
       \E p \in {power_verb(verb, resp, "ok")} :
         res' = Some([servers |-> Get(res).servers, delivered |-> {}])
    /\ arg' = [on |-> e, op |-> "command"]
    /\ UNCHANGED <<sysvars, fn>>

NextPair ==
    \/ \E e \in EntryIds : Refresh(e)
    \/ \E e \in EntryIds : Command(e)

SpecPair == InitPair /\ [][NextPair]_vars

\* ------------------------------------------------------ the power switch
\* switch.py lines 75-115: the switch entity of one server, between the
\* refreshes of its coordinator.  A refresh is taken as a whole: update,
\* the listener of its signal, and the coordinator storing the result.
SwitchCalls == {"async_turn_on", "async_turn_off"}

\* switch.py lines 101-105: bool(self.coordinator.data.power_on)
is_on(coord) == Get(coord.data).power_on

\* switch.py lines 107-110: jobs are the methods handed to the executor,
\* r what the one that ran did, written the calls of async_write_ha_state
async_turn_on(resp, outcome) ==
    [jobs |-> <<"power_on">>, r |-> power_verb("power_on", resp, outcome),
     written |-> 1]

\* a variant of turning off that cuts the power instead
async_turn_off_powers_off(resp, outcome) ==
    [jobs |-> <<"power_off">>, r |-> power_verb("power_off", resp, outcome),
     written |-> 1]

\* switch.py lines 112-115
async_turn_off(resp, outcome) ==
    [jobs |-> <<"soft_shutdown">>, r |-> power_verb("soft_shutdown", resp, outcome),
     written |-> 1]

SwitchResponses ==
    { AddonResponse("refused", 0, {}, FALSE, NoPayload),
      AddonResponse("object", 200, {"success", "message"}, FALSE, NoPayload),
      AddonResponse("object", 200, {"success"} \cup PayloadKeys, TRUE,
                    SidecarPayload(SidecarIds, {})) }

SwitchBehaviours ==
    { NotPolled }
    \cup { RmcpBehaviour(TRUE, TRUE, TRUE, TRUE, TRUE, p, Functions, <<>>) : p \in BOOLEAN }

SwitchInputs ==
    { [resp |-> r, outcome |-> o] : r \in SwitchResponses, o \in ControlOutcomes }

\* the snapshots a first refresh can end with
FirstSnapshots ==
    UNION { { update(r, b, None, EmptyBag).device_info :
                b \in BehavioursFor(r, SwitchBehaviours) } : r \in SwitchResponses } \ {None}

\* the entry is set up: the first refresh has succeeded and the platforms
\* have made their entities from its snapshot
InitSwitch ==
    /\ device_info \in FirstSnapshots
    /\ known_sensors = create_entity_sensors(EmptyBag, Get(device_info))
    /\ entities = async_add_entities(EmptyBag, NewEntities(EmptyBag, Get(device_info)))
    /\ new_sensors = {}
    /\ jobs = [j \in JobIds |-> "idle"]
    /\ awaiting = 0
    /\ loop = <<>>
    /\ coordinator = [data |-> device_info, last_exception |-> "none"]
    /\ phase = "ready"
    /\ NoCall

TurnOn ==
    /\ \E i \in SwitchInputs : \E r \in {async_turn_on(i.resp, i.outcome)} :
          /\ arg' = Some(i)
          /\ res' = Some(r)
    /\ fn' = "async_turn_on"
    /\ UNCHANGED sysvars

TurnOff ==
    /\ \E i \in SwitchInputs : \E r \in {async_turn_off(i.resp, i.outcome)} :
          /\ arg' = Some(i)
          /\ res' = Some(r)
    /\ fn' = "async_turn_off"
    /\ UNCHANGED sysvars

\* server.py lines 298-343, sensor.py lines 101-104 and __init__.py lines
\* 88-94: one refresh of the coordinator
SwitchRefresh ==
    /\ EntitiesBounded
    /\ \E resp \in SwitchResponses : \E b \in BehavioursFor(resp, SwitchBehaviours) :
       \E u \in {update(resp, b, device_info, known_sensors)} :
       \E r \in {async_update_data(u.exc, u.device_info)} :
          /\ device_info' = u.device_info
          /\ new_sensors' = u.new_sensors
          /\ known_sensors' = IF u.signals > 0
                              THEN create_entity_sensors(u.known_sensors, Get(coordinator.data))
                              ELSE u.known_sensors
          /\ entities' = IF u.signals > 0
                         THEN async_add_entities(entities,
                                  NewEntities(u.known_sensors, Get(coordinator.data)))
                         ELSE entities
          /\ coordinator' = IF r.exc # "none"
                            THEN [coordinator EXCEPT !.last_exception = r.exc]
                            ELSE [data |-> r.data, last_exception |-> "none"]
          /\ arg' = Some([resp |-> resp, b |-> b])
          /\ res' = Some(r)
    /\ fn' = "refresh"
    /\ UNCHANGED <<jobs, awaiting, loop, phase>>

NextSwitch ==
    \/ TurnOn
    \/ TurnOff
    \/ SwitchRefresh

SpecSwitch == InitSwitch /\ [][NextSwitch]_vars

\* ------------------------------------------------------------- properties
Updated == fn = "update" /\ ~IsNone(res)
Polled == fn = "getFromRmcp" /\ ~IsNone(res)
Running == {j \in JobIds : jobs[j] = "running"}
Quiescent == awaiting = 0 /\ loop = <<>> /\ Running = {}
Unavailable(resp) == resp.kind \in {"refused", "text", "null"}
RmcpAttempted(u) == u.sel.r # NotCalled

\* C1: in a refresh the direct transport is attempted if and only if the
\* sidecar call of that refresh returned nothing, whatever the snapshot and
\* the known sensors were before; a refresh that got a body from the sidecar
\* opens no direct session.
C1_DirectIffSidecarUnavailable ==
    Updated =>
        /\ RmcpAttempted(Get(res)) <=> Unavailable(arg.resp)
        /\ IsNone(Get(res).sel.addon) <=> Unavailable(arg.resp)
        /\ ~Unavailable(arg.resp) => Get(res).sel.r.opened = 0

C1_Witness ==
    /\ Updated
    /\ Unavailable(arg.resp)
    /\ ~IsNone(arg.info0)
    /\ Get(res).sel.r.opened = 1
    /\ ~IsNone(Get(res).device_info)

\* C2: once a refresh has ended, either the coordinator holds no exception
\* and the server's snapshot is the complete new snapshot the coordinator
\* stored, or the failure was surfaced as UpdateFailed and the server's
\* snapshot is absent.
C2_SnapshotOrUpdateFailed ==
    (Quiescent /\ ~(IsNone(coordinator.data) /\ coordinator.last_exception = "none")) =>
        \/ /\ coordinator.last_exception = "none"
           /\ ~IsNone(device_info)
           /\ coordinator.data = device_info
        \/ /\ coordinator.last_exception = "UpdateFailed"
           /\ IsNone(device_info)

\* C3: a direct poll makes as many close calls as it opened sessions.
C3_ClosesEqualOpens ==
    Polled => Get(res).closed = Get(res).opened

\* C4: at most one execution of update is in progress at any time.
C4_OneUpdateAtATime == Cardinality(Running) <= 1

\* C5: when the sidecar's body carries success = false and a message, the
\* message is logged, the direct transport is not attempted, the snapshot is
\* set to absent and the refresh fails with UpdateFailed.
SidecarFailure(resp) ==
    resp.kind = "object" /\ {"success", "message"} \subseteq resp.keys /\ ~resp.success

C5_SidecarFailureIsTerminal ==
    (Updated /\ SidecarFailure(arg.resp)) =>
        /\ Get(res).sel.error_logged
        /\ ~RmcpAttempted(Get(res))
        /\ Get(res).exc = "none"
        /\ IsNone(Get(res).device_info)
        /\ async_update_data(Get(res).exc, Get(res).device_info).exc = "UpdateFailed"

C5_Witness ==
    /\ Updated
    /\ SidecarFailure(arg.resp)
    /\ arg.resp.status = 200
    /\ ~IsNone(arg.info0)
    /\ IsNone(Get(res).device_info)

\* C6: a sidecar response that is not 2xx, is not JSON or is a failed
\* connection, or whose body is malformed, counts as no response: no
\* exception leaves the refresh and the direct transport is attempted.
WellFormed(resp) ==
    /\ resp.kind = "object"
    /\ "success" \in resp.keys
    /\ IF resp.success THEN PayloadKeys \subseteq resp.keys ELSE TRUE

SidecarDown(resp) ==
    \/ resp.kind \in {"refused", "text"}
    \/ resp.status \notin 200..299
    \/ ~WellFormed(resp)

C6_SidecarDownFallsBack ==
    (Updated /\ SidecarDown(arg.resp)) =>
        /\ IsNone(Get(res).sel.addon)
        /\ Get(res).exc = "none"
        /\ RmcpAttempted(Get(res))

\* C7: in a direct poll whose session opens and whose device-id and chassis
\* reads succeed, a failing FRU read gives a snapshot with the sentinel
\* manufacturer and product names and the other fields filled.
EnumerationClean(b) == b.supports # {} /\ b.sdr = <<>>

C7_FruFailureTolerated ==
    (Polled /\ arg.connect /\ arg.device_id /\ arg.chassis /\ EnumerationClean(arg)
        /\ (~arg.fru_first \/ ~arg.fru_second)) =>
        /\ ~IsNone(Get(res).json)
        /\ Get(Get(res).json).device.manufacturer_name = "None"
        /\ Get(Get(res).json).device.product_name = "None"
        /\ Get(Get(res).json).device.firmware_revision = "1.0"
        /\ Get(Get(res).json).power_on = arg.power_on

\* C8: the enumerator is that of the SDR repository when the device supports
\* it, else the device-local one when the device supports sensors, and when
\* it supports neither the poll succeeds with empty buckets and no readings.
CallsOk(b) == b.connect /\ b.fru_first /\ b.device_id /\ b.chassis

C8_EnumeratorChoice ==
    (Polled /\ CallsOk(arg)) =>
        /\ "sdr_repository" \in arg.supports => Get(res).iter_fct = "sdr_repository_entries"
        /\ (arg.supports = {"sensor"}) => Get(res).iter_fct = "device_sdr_entries"
        /\ (arg.supports = {}) =>
              /\ ~IsNone(Get(res).json)
              /\ Get(Get(res).json).sensors = EmptySensors
              /\ Get(Get(res).json).states = EmptyDict

\* C9: a completion-code error on the value read of a Full or Compact
\* record, named or not, does not end the poll: when nothing else fails the
\* poll produces a snapshot.
OnlyCompletionCodeErrors(b) ==
    \A i \in 1..Len(b.sdr) : b.sdr[i].reading.err \in {"none", "CompletionCodeError"}

C9_CompletionCodeErrorNotFatal ==
    (Polled /\ CallsOk(arg) /\ arg.supports # {} /\ OnlyCompletionCodeErrors(arg)) =>
        ~IsNone(Get(res).json)

\* C10: after a refresh that succeeded on a snapshot with a non-empty
\* reading map, the known sensors are exactly the ids of the reading map.
C10_KnownEqualsReadingIds ==
    (Quiescent /\ phase = "ready" /\ coordinator.last_exception = "none"
        /\ ~IsNone(device_info) /\ coordinator.data = device_info
        /\ DOMAIN Get(device_info).states # {}) =>
        BagToSet(known_sensors) = DOMAIN Get(device_info).states

\* a step in which a run of update ends
UpdateStep == \E j \in JobIds : jobs[j] = "running" /\ jobs'[j] = "idle"

\* C11: two consecutive refreshes that succeed on snapshots with the same
\* set of reading ids never both collect new sensors: when the earlier one
\* did, the later one collects none (and so sends no signal).
C11_NoRepeatedNewSensors ==
    [][(/\ UpdateStep
        /\ ~IsNone(device_info) /\ ~IsNone(device_info')
        /\ DOMAIN Get(device_info).states = DOMAIN Get(device_info').states
        /\ new_sensors # {})
       => new_sensors' = {}]_vars

\* the run of update ended normally with a snapshot / without one
Succeeded(u) == u.exc = "none" /\ ~IsNone(u.device_info)
ReadingIds(u) == DOMAIN Get(u.device_info).states

\* C12: a refresh that succeeds on a snapshot with no readings leaves the
\* list of known sensors empty, whatever it held before, collects no new
\* sensors and sends no signal.
C12_ZeroReadingsClears ==
    (Updated /\ Succeeded(Get(res)) /\ ReadingIds(Get(res)) = {}) =>
        /\ Get(res).known_sensors = EmptyBag
        /\ Get(res).new_sensors = {}
        /\ Get(res).signals = 0

C12_Witness ==
    /\ Updated
    /\ Succeeded(Get(res))
    /\ ReadingIds(Get(res)) = {}
    /\ BagToSet(arg.known0) = SidecarIds
    /\ Get(res).known_sensors = EmptyBag

\* C13: a run of update sends the new-sensor signal once when some reading
\* id of its snapshot was not known before it, and not at all otherwise; a
\* run that fails or raises sends none.
C13_SignalOnceIffNew ==
    Updated =>
        LET u == Get(res)
        IN  IF Succeeded(u)
            THEN u.signals = IF ReadingIds(u) \ BagToSet(arg.known0) # {} THEN 1 ELSE 0
            ELSE u.signals = 0

C13_Witness ==
    /\ Updated
    /\ Succeeded(Get(res))
    /\ arg.known0 = EmptyBag
    /\ Cardinality(Get(res).new_sensors) = 2
    /\ Get(res).signals = 1

\* C14: when the listener of the new-sensor signal handles a signal, the ids
\* it takes as new (those of the coordinator's snapshot that are not known)
\* are the ids the run of update that sent the signal collected as new.
C14_HandlerReceivesDelta ==
    (loop # <<>> /\ Head(loop).type = "signal" /\ phase = "ready") =>
        BucketIds(Get(coordinator.data)) \ BagToSet(known_sensors) = Head(loop).new

\* C15: the list of known sensors changes only in a step in which a run of
\* update ends.
C15_OnlyTrackerMutates ==
    [][known_sensors' # known_sensors => UpdateStep]_vars

\* C16: a refresh that fails (the sidecar reports a failure with its
\* message, or the direct transport fails) sets the snapshot to absent and
\* leaves the list of known sensors as it was; a run of update changes the
\* list only when it succeeds and the snapshot has no readings or lacks a
\* known id.
DirectFailed(u) == RmcpAttempted(u) /\ IsNone(u.sel.r.json)

C16_FailureKeepsKnown ==
    Updated =>
        LET u == Get(res)
        IN  /\ (SidecarFailure(arg.resp) \/ DirectFailed(u)) =>
                  /\ IsNone(u.device_info)
                  /\ u.known_sensors = arg.known0
                  /\ u.signals = 0
            /\ u.known_sensors # arg.known0 =>
                  /\ Succeeded(u)
                  /\ \/ ReadingIds(u) = {}
                     \/ BagToSet(arg.known0) \ ReadingIds(u) # {}

C16_Witness ==
    /\ Updated
    /\ DirectFailed(Get(res))
    /\ ~IsNone(arg.info0)
    /\ BagToSet(arg.known0) = SidecarIds
    /\ IsNone(Get(res).device_info)
    /\ Get(res).known_sensors = arg.known0

Commanded == fn = "send_command" /\ ~IsNone(res)
Powered == fn \in PowerVerbs /\ ~IsNone(res)

\* C17: send_command against a sidecar that gives no response raises when
\* ignore_errors is false, and when ignore_errors is true logs the error and
\* returns without raising.
C17_UnreachableSidecar ==
    (Commanded /\ arg.resp.kind = "refused") =>
        IF arg.ignore_errors
        THEN Get(res).exc = "none" /\ Get(res).logged = 1
        ELSE Get(res).exc # "none"

\* C18: for a sidecar response that has a success flag and an output: with
\* the flag true send_command returns the output and does not raise; with
\* the flag false it raises an Exception that carries the output when
\* ignore_errors is false, and logs and returns the output when it is true.
WellFormedCommand(resp) == resp.kind = "object" /\ CommandKeys \subseteq resp.keys

C18_EmbeddedFailure ==
    (Commanded /\ WellFormedCommand(arg.resp)) =>
        LET r == Get(res)
        IN  IF arg.resp.success
            THEN r.exc = "none" /\ r.output = Some(arg.resp.payload)
            ELSE IF arg.ignore_errors
            THEN r.exc = "none" /\ r.logged = 1 /\ r.output = Some(arg.resp.payload)
            ELSE /\ r.exc = "Exception"
                 /\ \E i \in 1..Len(r.detail) : r.detail[i] = arg.resp.payload

C18_Witness ==
    /\ Commanded
    /\ WellFormedCommand(arg.resp)
    /\ ~arg.resp.success
    /\ ~arg.ignore_errors
    /\ arg.resp.payload = "no route"
    /\ Get(res).exc = "Exception"

\* C19: a power verb asks the sidecar for the sub-path of its own name, and
\* calls the direct transport, once and with the chassis-control command of
\* the same verb, exactly when the sidecar gave no response; what is sent to
\* the BMC is at most that one command.
Equivalent(verb) ==
    [power_on |-> "CONTROL_POWER_UP", power_off |-> "CONTROL_POWER_DOWN",
     power_cycle |-> "CONTROL_POWER_CYCLE", power_reset |-> "CONTROL_HARD_RESET",
     soft_shutdown |-> "CONTROL_SOFT_SHUTDOWN"][verb]

C19_VerbOwnPathAndCommand ==
    Powered =>
        LET r == Get(res)
        IN  /\ r.path = fn
            /\ r.rmcp = IF Unavailable(arg.resp) THEN <<Equivalent(fn)>> ELSE <<>>
            /\ r.sent \in {<<>>, r.rmcp}

C19_Witness ==
    /\ Powered
    /\ fn = "power_reset"
    /\ Unavailable(arg.resp)
    /\ Get(res).sent = <<"CONTROL_HARD_RESET">>

\* C20: a power verb returns without raising whatever the sidecar and the
\* BMC do, and leaves the snapshot and the list of known sensors as they were.
C20_PowerVerbNeverRaises ==
    [][(fn \in PowerVerbs /\ IsNone(res) /\ ~IsNone(res')) =>
          /\ Get(res').exc = "none"
          /\ device_info' = device_info
          /\ known_sensors' = known_sensors]_vars

C20_Witness ==
    /\ Powered
    /\ Unavailable(arg.resp)
    /\ arg.outcome = "control_fails"
    /\ Get(res).logged = 1
    /\ Get(res).exc = "none"
    /\ ~IsNone(device_info)
    /\ BagToSet(known_sensors) = SidecarIds

\* C21: once a refresh has failed with UpdateFailed, no sensor entity of a
\* known sensor shows a reading: each shows unavailable or unknown.
C21_FailedPollUnavailable ==
    (Quiescent /\ phase = "ready" /\ coordinator.last_exception = "UpdateFailed") =>
        \A id \in BagToSet(known_sensors) :
            EntityState(id, Get(coordinator.data)).shown \in {STATE_UNAVAILABLE, STATE_UNKNOWN}

\* C22: whatever the snapshot and the known sensors were before (after a
\* failed refresh the snapshot is absent), a refresh in which the sidecar
\* answers with success and a complete body, or in which the direct poll
\* succeeds, ends with the snapshot built from that answer.
SidecarSuccess(resp) ==
    resp.kind = "object" /\ resp.success /\ ({"success"} \cup PayloadKeys) \subseteq resp.keys

DirectSucceeded(u) == RmcpAttempted(u) /\ ~IsNone(u.sel.r.json)

C22_RecoversAfterFailure ==
    Updated =>
        LET u == Get(res)
        IN  /\ SidecarSuccess(arg.resp) =>
                  /\ u.exc = "none"
                  /\ u.device_info = Some(IpmiDeviceInfo(arg.resp.payload))
            /\ DirectSucceeded(u) =>
                  /\ u.exc = "none"
                  /\ u.device_info = Some(IpmiDeviceInfo(Get(u.sel.r.json)))

C22_Witness ==
    /\ Updated
    /\ IsNone(arg.info0)
    /\ DirectSucceeded(Get(res))
    /\ Succeeded(Get(res))
    /\ ReadingIds(Get(res)) # {}

Sanitized == fn = "generateId" /\ ~IsNone(res)

\* C23: generateId applied to its own result returns that result.
C23_GenerateIdIdempotent ==
    Sanitized => generateId(Get(res)) = Get(res)

C23_Witness ==
    /\ Sanitized
    /\ arg = <<"T", " ", "#">>
    /\ Get(res) = <<"t", "_">>

\* C24: generateId(N) is N read character by character, with each character
\* outside [A-Za-z0-9 _] dropped, each space turned into an underscore and
\* each letter lowercased; the result has only lowercase letters, digits and
\* underscores, and "Fan Speed #1 (CPU)" gives "fan_speed_1_cpu".
RECURSIVE Expected(_)
Expected(name) ==
    IF name = <<>> THEN <<>>
    ELSE LET c == Head(name)
             rest == Expected(Tail(name))
         IN  IF c \in Upper THEN <<lower(c)>> \o rest
             ELSE IF c \in Lower \cup Digit \cup {"_"} THEN <<c>> \o rest
             ELSE IF c = " " THEN <<"_">> \o rest
             ELSE rest

C24_GenerateIdRule ==
    Sanitized =>
        /\ Get(res) = Expected(arg)
        /\ \A i \in 1..Len(Get(res)) : Get(res)[i] \in Lower \cup Digit \cup {"_"}
        /\ arg = FanSpeedName =>
              Get(res) = <<"f", "a", "n", "_", "s", "p", "e", "e", "d", "_", "1", "_",
                           "c", "p", "u">>

C24_Witness ==
    /\ Sanitized
    /\ arg = FanSpeedName
    /\ Len(Get(res)) = 15

\* the records of a poll that are put in a bucket, and the id of a record
Bucketed(s) ==
    s.sensor_type_code \in {SENSOR_TYPE_TEMPERATURE, SENSOR_TYPE_FAN, SENSOR_TYPE_VOLTAGE}

IdOf(s) == IF Truthy(s.device_id_string) THEN generateId(s.device_id_string)
           ELSE s.device_id_string

PollSucceeded == Polled /\ ~IsNone(Get(res).json)

\* C25: in the snapshot of a direct poll, a named record of a bucket whose
\* raw name differs from the raw name of every other enumerated record is
\* in its bucket, under its id and with its raw name.
C25_BucketKeepsDistinctNames ==
    PollSucceeded =>
        \A i \in 1..Len(arg.sdr) :
            (/\ Bucketed(arg.sdr[i])
             /\ Truthy(arg.sdr[i].device_id_string)
             /\ \A j \in 1..Len(arg.sdr) :
                    j # i => arg.sdr[j].device_id_string # arg.sdr[i].device_id_string)
            => LET bucket == Get(Get(res).json).sensors[arg.sdr[i].sensor_type_code]
                   id == generateId(arg.sdr[i].device_id_string)
               IN  id \in DOMAIN bucket /\ bucket[id] = arg.sdr[i].device_id_string

\* C26: in the snapshot of a direct poll the value stored for a bucketed
\* record (the last one enumerated with its id) whose reading was obtained
\* is the converted raw value for a Full record (null for a null reading)
\* and the raw value itself for a Compact record; a record of another type
\* has a null value, and a value is fetched for Full and Compact records only.
C26_StoredValue ==
    PollSucceeded =>
        /\ \A i \in 1..Len(arg.sdr) :
              LET s == arg.sdr[i]
              IN  (/\ Bucketed(s)
                   /\ s.reading.err = "none"
                   /\ \A j \in (i + 1)..Len(arg.sdr) :
                          Bucketed(arg.sdr[j]) => IdOf(arg.sdr[j]) # IdOf(s))
                  => Get(Get(res).json).states[IdOf(s)] =
                        IF s.type = SDR_TYPE_FULL_SENSOR_RECORD
                        THEN IF IsNone(s.reading.raw) THEN None
                             ELSE Some(s.m * Get(s.reading.raw))
                        ELSE IF s.type = SDR_TYPE_COMPACT_SENSOR_RECORD
                        THEN s.reading.raw
                        ELSE None
        /\ Get(res).reads =
              Cardinality({i \in 1..Len(arg.sdr) :
                  arg.sdr[i].type \in {SDR_TYPE_FULL_SENSOR_RECORD,
                                       SDR_TYPE_COMPACT_SENSOR_RECORD}})

C26_Witness ==
    /\ PollSucceeded
    /\ Len(arg.sdr) = 2
    /\ arg.sdr[1].type = SDR_TYPE_COMPACT_SENSOR_RECORD
    /\ arg.sdr[2].type = SDR_TYPE_FULL_SENSOR_RECORD
    /\ Get(Get(res).json).states[<<"f", "_", "1">>] = Some(5)
    /\ Get(Get(res).json).states[<<"t", "1">>] = Some(6)

\* C27: in the snapshot of a direct poll the temperature, fan and voltage
\* buckets hold the ids of exactly the records with the temperature, fan and
\* voltage type code, the reading map holds the ids of exactly those
\* records, and the power, current and time buckets are there and empty.
IdsWithCode(sdr, code) ==
    {IdOf(sdr[i]) : i \in {k \in 1..Len(sdr) : sdr[k].sensor_type_code = code}}

C27_BucketByTypeCode ==
    PollSucceeded =>
        LET json == Get(Get(res).json)
        IN  /\ DOMAIN json.sensors =
                  {"temperature", "voltage", "fan", "power", "current", "time"}
            /\ DOMAIN json.sensors.temperature = IdsWithCode(arg.sdr, SENSOR_TYPE_TEMPERATURE)
            /\ DOMAIN json.sensors.fan = IdsWithCode(arg.sdr, SENSOR_TYPE_FAN)
            /\ DOMAIN json.sensors.voltage = IdsWithCode(arg.sdr, SENSOR_TYPE_VOLTAGE)
            /\ DOMAIN json.states =
                  IdsWithCode(arg.sdr, SENSOR_TYPE_TEMPERATURE)
                  \cup IdsWithCode(arg.sdr, SENSOR_TYPE_FAN)
                  \cup IdsWithCode(arg.sdr, SENSOR_TYPE_VOLTAGE)
            /\ json.sensors.power = EmptyDict
            /\ json.sensors.current = EmptyDict
            /\ json.sensors.time = EmptyDict

C27_Witness ==
    /\ PollSucceeded
    /\ Len(arg.sdr) = 2
    /\ arg.sdr[1].sensor_type_code = SENSOR_TYPE_FAN
    /\ arg.sdr[2].sensor_type_code = SENSOR_TYPE_OTHER
    /\ DOMAIN Get(Get(res).json).sensors.fan = {<<"f", "_", "1">>}
    /\ DOMAIN Get(Get(res).json).states = {<<"f", "_", "1">>}

Substituted == fn = "command_path" /\ ~IsNone(res)

\* C29: the command sent is the template read from the left with each
\* token $host$, $port$, $username$, $password$ replaced by the connection's
\* value as it is and every other piece kept, then URL-encoded and put
\* behind the command endpoint (for templates whose tokens do not overlap).
TokenAt(t) ==
    Len(t) >= 3 /\ t[1] = "$" /\ t[3] = "$"
        /\ t[2] \in {"host", "port", "username", "password"}

NoOverlap(t) ==
    \A i \in 1..Len(t) :
        ~(TokenAt(SubSeq(t, i, Len(t))) /\ TokenAt(SubSeq(t, i + 2, Len(t))))

RECURSIVE Verbatim(_, _)
Verbatim(t, conn) ==
    IF t = <<>> THEN <<>>
    ELSE IF TokenAt(t) THEN conn[t[2]] \o Verbatim(SubSeq(t, 4, Len(t)), conn)
    ELSE <<Head(t)>> \o Verbatim(Tail(t), conn)

C29_TokensReplacedVerbatim ==
    (Substituted /\ NoOverlap(arg.command)) =>
        /\ Get(res).cmd = Verbatim(arg.command, arg.conn)
        /\ Get(res).path = <<"command?params=">> \o quote(Get(res).cmd)

\* C30: when the sidecar gives no response and the direct poll succeeds, the
\* snapshot has a device map with the manufacturer name, product name,
\* firmware revision and product id, a boolean power_on, a sensors map with
\* exactly the six buckets, a states map over the bucketed ids, and the alias.
C30_DirectSnapshotSchema ==
    (Updated /\ Unavailable(arg.resp) /\ DirectSucceeded(Get(res))) =>
        /\ Succeeded(Get(res))
        /\ LET info == Get(Get(res).device_info)
           IN  /\ DOMAIN info = {"device", "power_on", "sensors", "states", "alias"}
               /\ DOMAIN info.device =
                     {"manufacturer_name", "product_name", "firmware_revision", "product_id"}
               /\ info.power_on \in BOOLEAN
               /\ DOMAIN info.sensors =
                     {"temperature", "voltage", "fan", "power", "current", "time"}
               /\ DOMAIN info.states = BucketIds(info)
               /\ info.alias = alias

C30_Witness ==
    /\ Updated
    /\ arg.resp.kind = "refused"
    /\ DirectSucceeded(Get(res))
    /\ ReadingIds(Get(res)) = {<<"t", "1">>}
    /\ Get(Get(res).device_info).alias = alias

\* C31: after a successful update, an id whose reading is null stays in the
\* list of known sensors if it was there and is not among the new ids; the
\* ids that leave the list are exactly those missing from the reading map;
\* the entity of an id with a null reading shows unavailable.
C31_NullReadingKept ==
    (Updated /\ Succeeded(Get(res))) =>
        LET u == Get(res)
            info == Get(u.device_info)
        IN  /\ \A id \in DOMAIN info.states :
                  IsNone(info.states[id]) =>
                      /\ CopiesIn(id, arg.known0) > 0 =>
                             /\ CopiesIn(id, u.known_sensors) = CopiesIn(id, arg.known0)
                             /\ id \notin u.new_sensors
                      /\ ~available(id, info)
                      /\ EntityState(id, info).shown = STATE_UNAVAILABLE
            /\ \A id \in BagToSet(arg.known0) :
                  CopiesIn(id, u.known_sensors) = 0 <=> id \notin DOMAIN info.states

C31_Witness ==
    /\ Updated
    /\ Succeeded(Get(res))
    /\ BagToSet(arg.known0) = SidecarIds
    /\ ReadingIds(Get(res)) = SidecarIds
    /\ IsNone(Get(Get(res).device_info).states[<<"t", "1">>])
    /\ BagToSet(Get(res).known_sensors) = SidecarIds
    /\ Get(res).signals = 0

\* C32: when a power verb returns, every session its direct command opened
\* has been closed.
C32_CommandClosesSession ==
    Powered => Get(res).closed = Get(res).opened

\* C33: turning the switch on runs power_on once and nothing else, turning
\* it off runs soft_shutdown once and nothing else; neither changes the
\* server's snapshot or the coordinator's data; is_on changes only in a
\* refresh that succeeded, to the power_on of the snapshot it stored.
Switched == fn \in SwitchCalls /\ ~IsNone(res)

C33_SwitchFireAndForget ==
    [][/\ fn' = "async_turn_on" =>
              /\ Get(res').jobs = <<"power_on">>
              /\ Get(res').r.path = "power_on"
       /\ fn' = "async_turn_off" =>
              /\ Get(res').jobs = <<"soft_shutdown">>
              /\ Get(res').r.path = "soft_shutdown"
              /\ Get(res').r.sent \in {<<>>, <<"CONTROL_SOFT_SHUTDOWN">>}
       /\ fn' \in SwitchCalls =>
              /\ device_info' = device_info
              /\ coordinator' = coordinator
              /\ is_on(coordinator') = is_on(coordinator)
       /\ is_on(coordinator') # is_on(coordinator) =>
              /\ fn' = "refresh"
              /\ Get(res').exc = "none"
              /\ is_on(coordinator') = Get(device_info').power_on]_vars

C33_Witness ==
    /\ Switched
    /\ fn = "async_turn_off"
    /\ Get(res).r.sent = <<"CONTROL_SOFT_SHUTDOWN">>
    /\ Get(res).r.closed = 1
    /\ is_on(coordinator)
    /\ coordinator.last_exception = "UpdateFailed"

\* C34: when the listener handles a new-sensor signal, the snapshot it reads
\* from the coordinator has a reading for every id the run of update that
\* sent the signal collected as new.
C34_HandlerSeesSendersSnapshot ==
    (loop # <<>> /\ Head(loop).type = "signal" /\ phase = "ready") =>
        Head(loop).new \subseteq DOMAIN Get(coordinator.data).states

\* C35: at most one entity is ever made for a sensor id.
C35_OneEntityPerSensor ==
    \A id \in BagToSet(entities) : CopiesIn(id, entities) <= 1

\* C36: the list of known sensors never holds an id twice; every id in it
\* has an entity; an id is added to the list only in a step that makes an
\* entity for it.
KnownHaveEntities ==
    \A id \in BagToSet(known_sensors) :
        CopiesIn(id, known_sensors) = 1 /\ CopiesIn(id, entities) >= 1

Reported(id) ==
    /\ ~IsNone(device_info)
    /\ id \in DOMAIN Get(device_info).states
    /\ \E b \in DOMAIN Get(device_info).sensors : id \in DOMAIN Get(device_info).sensors[b]
    /\ coordinator.last_exception = "none"

Steady(S) ==
    /\ \A id \in S : Reported(id)
    /\ DOMAIN Get(device_info).states = S

Discovered(id) == CopiesIn(id, entities) >= 1 /\ CopiesIn(id, known_sensors) = 1

Stable(S) ==
    /\ \A id \in S : Discovered(id)
    /\ \A i \in 1..Len(loop) : loop[i].type # "signal"

C38_ReadingsMatchBuckets ==
    PollSucceeded =>
        LET json == Get(Get(res).json)
        IN  DOMAIN json.states = UNION {DOMAIN json.sensors[b] : b \in DOMAIN json.sensors}

C38_Witness ==
    /\ PollSucceeded
    /\ Len(arg.sdr) = 2
    /\ \E i \in 1..2 : arg.sdr[i].sensor_type_code = SENSOR_TYPE_OTHER
    /\ \E i \in 1..2 : arg.sdr[i].sensor_type_code = SENSOR_TYPE_FAN
    /\ DOMAIN Get(Get(res).json).states = {<<"f", "_", "1">>}
    /\ DOMAIN Get(Get(res).json).sensors["fan"] = {<<"f", "_", "1">>}

\* C39: a power verb that the sidecar answers with a JSON body, whatever the
\* body and its success flag, calls no direct command, sends nothing to the
\* BMC and returns without an error.
JsonBody(resp) == resp.kind \in {"null", "array", "object"}

C39_AnsweredVerbStaysOnSidecar ==
    (Powered /\ JsonBody(arg.resp)) =>
        /\ Get(res).rmcp = <<>>
        /\ Get(res).sent = <<>>
        /\ Get(res).exc = "none"
        /\ Get(res).logged = 0

====
